---- MODULE Spec2Model ----
(***************************************************************************)
(* Model of the voice-transcriber worker process:                          *)
(*   src/python/transcription_server.py  (main, TranscriptionServer)       *)
(*   src/python/text_cleanup.py          (TextCleanup, DEFAULT_PROMPTS)    *)
(*                                                                         *)
(* Text is modelled as sequences of one-character strings.  The two        *)
(* inference collaborators (the ASR model, the chat template and the       *)
(* language model's generate) are the environment: each call either        *)
(* raises or returns a value drawn from a bounded set.                     *)
(***************************************************************************)
EXTENDS Naturals, Sequences, FiniteSets

\* ------------------------------------------------------------------ bounds

\* Lines the input stream may hold.
MaxLines == 3

\* Lengths of the raw transcriptions the ASR collaborator returns.
ShortTextLen == 4

MaxTextLen == 10

\* Longest text generate returns.
MaxGenLen == 18

\* ------------------------------------------------------------------- text

\* n copies of the character ch.
Rep(ch, n) == [i \in 1..n |-> ch]

IsSpace(ch) == ch = " "

\* Python's s[k:] for 0 <= k: the empty string when k >= len(s).
SliceFrom(s, k) == IF k >= Len(s) THEN <<>> ELSE SubSeq(s, k + 1, Len(s))

\* Python's str.strip(): leading and trailing whitespace removed.
Strip(s) ==
    LET idx == {i \in 1..Len(s) : ~IsSpace(s[i])}
    IN  IF idx = {} THEN <<>>
        ELSE LET lo == CHOOSE i \in idx : \A j \in idx : i <= j
                 hi == CHOOSE i \in idx : \A j \in idx : j <= i
             IN  SubSeq(s, lo, hi)

\* Python's None where a text is expected (no text is the one-element
\* sequence of a token that is not a character).
None == <<"None">>

\* Python truthiness of an optional text: None and "" are falsy.
Truthy(s) == s # None /\ s # <<>>

\* ------------------------------------------------- text_cleanup.py: prompts

\* The built-in system prompts, each instruction text taken as one token.
DEFAULT_PROMPTS ==
    [general |-> <<"G">>, coding |-> <<"C">>, punctuation |-> <<"P">>]

\* The module-level dict DEFAULT_PROMPTS as it is now: every TextCleanup
\* copies it when constructed.
VARIABLE shared_prompts

\* dict.update: insert or replace, key by key.
DictUpdate(base, over) ==
    [k \in (DOMAIN base) \cup (DOMAIN over) |->
        IF k \in DOMAIN over THEN over[k] ELSE base[k]]

\* dict.get(key, default).
DictGet(d, key, default) == IF key \in DOMAIN d THEN d[key] ELSE default

\* What load_custom_prompts may hand to TextCleanup: the JSON value of the
\* config file (a mapping, or some other JSON value such as a list), or {}
\* when the file is missing or unreadable.
NoCustomPrompts == [isDict |-> TRUE, truthy |-> FALSE, map |-> <<>>]

CustomPromptFiles ==
    { NoCustomPrompts,
      [isDict |-> TRUE, truthy |-> TRUE,
       map |-> [general |-> <<"G", "2">>, legal |-> <<"L">>]],
      [isDict |-> FALSE, truthy |-> TRUE, map |-> <<>>] }

\* Prompt names a request may carry that cannot be a dict key (a JSON list).
Unhashable == {"<list>"}

\* ----------------------------------------- text_cleanup.py: TextCleanup

\* The server's text_cleanup attribute when it holds no TextCleanup object.
NoTextCleanup == [present |-> FALSE, enabled |-> FALSE, prompts |-> DEFAULT_PROMPTS]

\* TextCleanupInit with the failure of load() swallowed: the object is kept,
\* enabled.
TextCleanupInitKeepsFailed(custom, mlx, llmLoads) ==
    LET prompts == IF custom.truthy THEN DictUpdate(shared_prompts, custom.map)
                   ELSE shared_prompts
    IN  IF custom.truthy /\ ~custom.isDict
        THEN [raised |-> TRUE, obj |-> NoTextCleanup]
        ELSE [raised |-> FALSE,
              obj |-> [present |-> TRUE, enabled |-> mlx, prompts |-> prompts]]

\* TextCleanup.__init__ with enabled=True: mlx says whether mlx_lm's load and
\* generate were imported, llmLoads whether load(model_name) returns.
\* raised tells that the constructor raised (the object is then dropped).
TextCleanupInit(custom, mlx, llmLoads) ==
    LET prompts == IF custom.truthy THEN DictUpdate(shared_prompts, custom.map)
                   ELSE shared_prompts
    IN  IF custom.truthy /\ ~custom.isDict
        THEN [raised |-> TRUE, obj |-> NoTextCleanup]
        ELSE IF ~mlx
        THEN [raised |-> FALSE,
              obj |-> [present |-> TRUE, enabled |-> FALSE, prompts |-> prompts]]
        ELSE IF ~llmLoads
        THEN [raised |-> TRUE, obj |-> NoTextCleanup]
        ELSE [raised |-> FALSE,
              obj |-> [present |-> TRUE, enabled |-> TRUE, prompts |-> prompts]]

\* The user message of the two-message exchange.
UserContent(text) == <<"Clean up this text:\n\n">> \o text

\* tokenizer.apply_chat_template(messages, tokenize=False,
\* add_generation_prompt=True): the formatted prompt holds both messages.
ApplyChatTemplate(system_prompt, text) ==
    <<"<|system|>">> \o system_prompt \o <<"<|user|>">> \o UserContent(text)
        \o <<"<|assistant|>">>

\* What generate() may return: a text of up to MaxGenLen characters, with
\* or without whitespace around it.
GenerateReturns ==
    { Rep("a", n) : n \in 0..MaxGenLen }
    \cup { <<" ", " ">>,
           <<" ">> \o Rep("a", MaxGenLen - 2) \o <<" ">>,
           Rep("a", MaxGenLen - ShortTextLen) \o Rep("b", ShortTextLen) }

\* cleaned_text = response[len(prompt):].strip()
ExtractGenerated(response, prompt) == Strip(SliceFrom(response, Len(prompt)))

\* TooShort without the length test.
TooShortOnlyEmpty(cleaned_text, text) == cleaned_text = <<>>

\* not cleaned_text or len(cleaned_text) < len(text) * 0.3
\* (the float product compares as 10 * len(cleaned) < 3 * len(text)).
TooShort(cleaned_text, text) ==
    cleaned_text = <<>> \/ 10 * Len(cleaned_text) < 3 * Len(text)

\* A call of cleanup that never reaches the collaborator.
NoRefinement(text, fault) ==
    [ret |-> text, raised |-> FALSE, tmplCalls |-> 0, genCalls |-> 0,
     system_prompt |-> None, prompt |-> None, genOut |-> None, fault |-> fault]

\* The try block of cleanup (lines 98-137) on a text that is not blank:
\* every way it may end, over the outcomes of the collaborator (the chat
\* template and generate may each raise; generate may return any text of
\* GenerateReturns).  ret is the text returned, raised whether an exception
\* left the block and fault its message ("" for none).
CleanupTry(tc, text, prompt_type) ==
    IF prompt_type \in Unhashable
    THEN {[NoRefinement(text, "unhashable type") EXCEPT !.raised = TRUE]}
    ELSE
      LET system_prompt == DictGet(tc.prompts, prompt_type, tc.prompts["general"])
          prompt == ApplyChatTemplate(system_prompt, text)
          tmplFault == [ret |-> text, raised |-> TRUE,
                        tmplCalls |-> 1, genCalls |-> 0,
                        system_prompt |-> system_prompt, prompt |-> None,
                        genOut |-> None, fault |-> "template fault"]
          genFault == [ret |-> text, raised |-> TRUE,
                       tmplCalls |-> 1, genCalls |-> 1,
                       system_prompt |-> system_prompt, prompt |-> prompt,
                       genOut |-> None, fault |-> "generate fault"]
          Returned(response) ==
              LET cleaned_text == ExtractGenerated(response, prompt)
              IN  [ret |-> IF TooShort(cleaned_text, text) THEN text
                           ELSE cleaned_text,
                   raised |-> FALSE, tmplCalls |-> 1, genCalls |-> 1,
                   system_prompt |-> system_prompt, prompt |-> prompt,
                   genOut |-> response, fault |-> ""]
      IN  {tmplFault, genFault}
          \cup { Returned(response) : response \in GenerateReturns }

\* CleanupExcept without the except clause: the exception goes on.
CleanupReraises(c, text) == c

\* except Exception (lines 139-141): the original text is returned.
CleanupExcept(c, text) ==
    IF c.raised THEN [c EXCEPT !.raised = FALSE, !.ret = text] ELSE c

\* cleanup without the test of the text at line 95.
cleanupAnyText(tc, text, prompt_type) ==
    IF ~tc.enabled
    THEN {NoRefinement(text, "")}
    ELSE { CleanupExcept(c, text) : c \in CleanupTry(tc, text, prompt_type) }

\* TextCleanup.cleanup(text, prompt_type): every result the call may have.
cleanup(tc, text, prompt_type) ==
    IF ~tc.enabled \/ ~Truthy(text) \/ Strip(text) = <<>>
    THEN {NoRefinement(text, "")}
    ELSE { CleanupExcept(c, text) : c \in CleanupTry(tc, text, prompt_type) }

\* --------------------------------------- transcription_server.py: values

\* dict.get of a key the JSON object does not hold (Python's None).
Absent == "<absent>"

\* A JSON number where a string is expected.
NumberFive == "<5>"

\* Python truthiness of a request field: None and "" are falsy.
PyTruthy(v) == v \notin {Absent, ""}

IsStr(v) == v \notin {Absent, NumberFive} \cup Unhashable

\* The files Path(audio_path).exists() finds.
ExistingFiles == {"/tmp/a.wav"}

\* str(value) as the f-strings format it.
PyStr(v) == IF v = Absent THEN "None" ELSE IF v = NumberFive THEN "5" ELSE v

\* The input lines. syntax: "malformed" (json.loads raises JSONDecodeError,
\* the empty line included), "nonobject" (valid JSON that is no object: a
\* number, a string, a list, null) or "object".
ObjectLine(action, audio_path, cleanup_prompt) ==
    [syntax |-> "object", raw |-> "{...}", action |-> action,
     audio_path |-> audio_path, cleanup_prompt |-> cleanup_prompt]

OtherLine(syntax, raw) ==
    [syntax |-> syntax, raw |-> raw, action |-> Absent, audio_path |-> Absent,
     cleanup_prompt |-> Absent]

NoLine == OtherLine("none", "")

AudioPaths == {Absent, "", "/tmp/a.wav", "/tmp/missing.wav", NumberFive}

PromptOverrides == {Absent, "coding", "nosuch"} \cup Unhashable

Lines ==
    { OtherLine("malformed", ""), OtherLine("malformed", "{\"action\":"),
      OtherLine("nonobject", "[1]"), OtherLine("nonobject", "null") }
    \cup { ObjectLine(a, Absent, Absent) : a \in {"ping", "quit", "bogus", Absent} }
    \cup { ObjectLine("transcribe", p, c) : p \in AudioPaths, c \in PromptOverrides }

\* json.loads(line.strip()): the decode error's text, or "" when it decodes.
JSONDecodeError(ln) ==
    IF ln.syntax # "malformed" THEN ""
    ELSE IF ln.raw = "" THEN "Expecting value: line 1 column 1 (char 0)"
    ELSE "Expecting value: line 1 column 11 (char 10)"

\* command.get on a value that is no dict: the AttributeError's text.
AttributeError(ln) ==
    IF ln.raw = "null" THEN "'NoneType' object has no attribute 'get'"
    ELSE "'list' object has no attribute 'get'"

\* The response envelopes.
NoResponse ==
    [keys |-> {}, success |-> FALSE, message |-> "", error |-> <<>>,
     text |-> None, original_text |-> None]

ErrorResponse(prefix, detail) ==
    [NoResponse EXCEPT !.keys = {"error"}, !.error = <<prefix, detail>>]

MessageResponse(message) ==
    [NoResponse EXCEPT !.keys = {"success", "message"}, !.success = TRUE,
                       !.message = message]

TranscribeResponse(text, original_text) ==
    [NoResponse EXCEPT !.keys = {"success", "text", "original_text", "sentences"},
                       !.success = TRUE, !.text = text,
                       !.original_text = original_text]

\* What kind of response a line got: the error's prefix, the message or
\* "transcribed".
Kind(r) ==
    IF r.keys = {} THEN "none"
    ELSE IF "error" \in r.keys THEN r.error[1]
    ELSE IF "message" \in r.keys THEN r.message
    ELSE "transcribed"

\* What the ASR collaborator's transcribe(path) may do: raise, or return a
\* result whose text is one of AsrTexts; wellFormed tells that its sentences
\* can be read while the payload is assembled.
AsrTexts ==
    { <<>>, <<" ">>, Rep("a", ShortTextLen), <<" ">> \o Rep("a", 2) \o <<" ">>,
      Rep("a", MaxTextLen) }

AsrOutcomes ==
    { [raises |-> TRUE, text |-> None, wellFormed |-> FALSE],
      [raises |-> FALSE, text |-> Rep("a", ShortTextLen), wellFormed |-> FALSE] }
    \cup { [raises |-> FALSE, text |-> t, wellFormed |-> TRUE] : t \in AsrTexts }

\* ------------------------------------------------------------------ state

VARIABLES
    phase,            \* "Starting", "Listening", "Terminated", "Exited"
    exit_status,      \* "running", "0" or "1"
    model,            \* TranscriptionServer.model is loaded
    cleanup_enabled,  \* TranscriptionServer.cleanup_enabled
    cleanup_prompt,   \* TranscriptionServer.cleanup_prompt (the default name)
    text_cleanup,     \* TranscriptionServer.text_cleanup
    cleanup_load,     \* what happened to the refinement collaborator at startup
    stdin,            \* lines of the input stream not read yet
    consumed,         \* lines the loop has read
    written,          \* response lines written to stdout
    flushed,          \* response lines flushed to the reader of stdout
    line,             \* the last line read
    response,         \* the last response written
    prev_kind,        \* the kind of the response before it
    trace,            \* the collaborator calls made for the last line
    prompt_call       \* the last call that wrote to a TextCleanup's prompts

vars ==
    <<phase, exit_status, model, cleanup_enabled, cleanup_prompt, text_cleanup,
      cleanup_load, stdin, consumed, written, flushed, line, response,
      prev_kind, trace, shared_prompts, prompt_call>>

\* What lives as long as the process: the server's attributes and the
\* prompt tables.
server_state ==
    <<model, cleanup_enabled, cleanup_prompt, text_cleanup, cleanup_load,
      shared_prompts, prompt_call>>

\* No call has written to a prompts dict.
NoPromptCall == [op |-> "none", overrides |-> <<>>]

\* No collaborator was called.
NoTrace ==
    [asrCalls |-> 0, asrText |-> None, wellFormed |-> FALSE,
     prompt_type |-> Absent, refine |-> NoRefinement(None, "")]

Init ==
    /\ phase = "Starting"
    /\ exit_status = "running"
    /\ model = FALSE
    /\ cleanup_enabled = TRUE
    /\ cleanup_prompt = "general"
    /\ text_cleanup = NoTextCleanup
    /\ cleanup_load = "not attempted"
    /\ stdin \in 0..MaxLines
    /\ consumed = 0
    /\ written = 0
    /\ flushed = 0
    /\ line = NoLine
    /\ response = NoResponse
    /\ prev_kind = "none"
    /\ trace = NoTrace
    /\ shared_prompts = DEFAULT_PROMPTS
    /\ prompt_call = NoPromptCall

\* ------------------------------------ transcription_server.py: transcribe

\* OriginalTextField without the comparison.
OriginalTextAlways(cleaned_text, original_text) == original_text

\* "original_text": original_text if cleaned_text != original_text else None
OriginalTextField(cleaned_text, original_text) ==
    IF cleaned_text # original_text THEN original_text ELSE None

\* PromptType with the request's override ignored.
PromptTypeServerDefault(override) == cleanup_prompt

\* prompt_type = cleanup_prompt or self.cleanup_prompt
PromptType(override) == IF PyTruthy(override) THEN override ELSE cleanup_prompt

\* if self.text_cleanup and self.cleanup_enabled
CleanupApplies == text_cleanup.present /\ cleanup_enabled

\* TranscriptionFailed without the except clause of lines 99-101: the
\* exception leaves transcribe and is answered by the loop (lines 148-152).
TranscriptionEscapes(detail, tr) ==
    [resp |-> ErrorResponse("Server error: ", detail), trace |-> tr]

\* except Exception (lines 99-101): the fault becomes the error envelope.
TranscriptionFailed(detail, tr) ==
    [resp |-> ErrorResponse("Transcription failed: ", detail), trace |-> tr]

\* transcribe after the ASR call returned asr: the cleanup and the payload.
\* Whatever is raised on the way is caught by lines 99-101.
Transcribed(asr, override) ==
    LET original_text == asr.text
        prompt_type == PromptType(override)
        results == IF CleanupApplies
                   THEN cleanup(text_cleanup, original_text, prompt_type)
                   ELSE {NoRefinement(original_text, "")}
        Tr(c) == [asrCalls |-> 1, asrText |-> original_text,
                  wellFormed |-> asr.wellFormed,
                  prompt_type |-> IF CleanupApplies THEN prompt_type ELSE Absent,
                  refine |-> c]
    IN  { IF c.raised
          THEN TranscriptionFailed(c.fault, Tr(c))
          ELSE IF asr.wellFormed
          THEN [resp |-> TranscribeResponse(
                             c.ret, OriginalTextField(c.ret, original_text)),
                trace |-> Tr(c)]
          ELSE TranscriptionFailed("object has no attribute", Tr(c))
          : c \in results }

\* transcribe without the existence check of lines 69-70.
transcribeUnchecked(audio_path, override) ==
    IF ~IsStr(audio_path)
    THEN {TranscriptionFailed("expected str, bytes or os.PathLike object", NoTrace)}
    ELSE UNION { IF asr.raises
                 THEN {TranscriptionFailed("asr fault",
                                           [NoTrace EXCEPT !.asrCalls = 1])}
                 ELSE Transcribed(asr, override)
                 : asr \in AsrOutcomes }

\* TranscriptionServer.transcribe(audio_path, cleanup_prompt): every outcome,
\* as the response and the calls made.
transcribe(audio_path, override) ==
    IF ~IsStr(audio_path)
    THEN {TranscriptionFailed("expected str, bytes or os.PathLike object", NoTrace)}
    ELSE IF audio_path \notin ExistingFiles
    THEN {[resp |-> ErrorResponse("Audio file not found: ", audio_path),
           trace |-> NoTrace]}
    ELSE UNION { IF asr.raises
                 THEN {TranscriptionFailed("asr fault",
                                           [NoTrace EXCEPT !.asrCalls = 1])}
                 ELSE Transcribed(asr, override)
                 : asr \in AsrOutcomes }

\* ------------------------------------------ transcription_server.py: main

\* What happened to the refinement collaborator at startup, as the
\* environment decided it.
LoadOutcome(imported, custom, mlx, llmLoads) ==
    IF ~imported THEN "not imported"
    ELSE IF custom.truthy /\ ~custom.isDict THEN "prompts failed"
    ELSE IF ~mlx THEN "mlx_lm missing"
    ELSE IF ~llmLoads THEN "load failed"
    ELSE "loaded"

\* TranscriptionServer() returns: the ASR model loaded, and the text cleanup
\* set up or, when setting it up raised, left None (lines 44-54).  imported
\* tells that the text_cleanup module could be imported.
Startup ==
    /\ phase = "Starting"
    /\ \E imported \in BOOLEAN, custom \in CustomPromptFiles,
          mlx \in BOOLEAN, llmLoads \in BOOLEAN :
          LET made == TextCleanupInit(custom, mlx, llmLoads)
          IN  /\ text_cleanup' = IF cleanup_enabled /\ imported /\ ~made.raised
                                  THEN made.obj ELSE NoTextCleanup
              /\ cleanup_load' = LoadOutcome(imported, custom, mlx, llmLoads)
              /\ prompt_call' = IF cleanup_enabled /\ imported
                                 THEN [op |-> "__init__", overrides |-> custom.map]
                                 ELSE NoPromptCall
    /\ model' = TRUE
    /\ phase' = "Listening"
    /\ UNCHANGED <<exit_status, cleanup_enabled, cleanup_prompt, shared_prompts,
                   stdin, consumed,
                   written, flushed, line, response, prev_kind, trace>>

\* StartupFails without sys.exit(1): the error is printed and the loop is
\* entered all the same.
StartupFailsGoesOn ==
    /\ phase = "Starting"
    /\ response' = ErrorResponse("Server startup failed: ", "")
    /\ prev_kind' = Kind(response)
    /\ written' = written + 1
    /\ flushed' = written + 1
    /\ phase' = "Listening"
    /\ UNCHANGED <<server_state, exit_status, stdin, consumed, line, trace>>

\* The ASR collaborator is missing or from_pretrained raises: one error
\* line, then sys.exit(1); the exit flushes stdout.
StartupFails ==
    /\ phase = "Starting"
    /\ \E cause \in {"parakeet_mlx not installed. Run: uv add parakeet-mlx",
                     "Server startup failed: "} :
          response' = ErrorResponse(cause, "")
    /\ prev_kind' = Kind(response)
    /\ written' = written + 1
    /\ flushed' = written + 1
    /\ phase' = "Exited"
    /\ exit_status' = "1"
    /\ UNCHANGED <<server_state, stdin, consumed, line, trace>>

\* ------------------------------------------- transcription_server.py: run

\* Emit with print alone: the response stays in the buffer of stdout.
EmitBuffered(ln, out, flush, next_phase) ==
    /\ line' = ln
    /\ response' = out.resp
    /\ trace' = out.trace
    /\ prev_kind' = Kind(response)
    /\ stdin' = stdin - 1
    /\ consumed' = consumed + 1
    /\ written' = written + 1
    /\ flushed' = flushed
    /\ phase' = next_phase
    /\ UNCHANGED <<server_state, exit_status>>

\* One iteration of the loop over ln: the response out.resp is printed, and
\* flushed when flush; the loop goes on or ends (next_phase).
Emit(ln, out, flush, next_phase) ==
    /\ line' = ln
    /\ response' = out.resp
    /\ trace' = out.trace
    /\ prev_kind' = Kind(response)
    /\ stdin' = stdin - 1
    /\ consumed' = consumed + 1
    /\ written' = written + 1
    /\ flushed' = IF flush THEN written + 1 ELSE flushed
    /\ phase' = next_phase
    /\ UNCHANGED <<server_state, exit_status>>

Plain(resp) == [resp |-> resp, trace |-> NoTrace]

ReadsLine == phase = "Listening" /\ stdin > 0

\* RunInvalidJson with the decode error ending the loop.
RunInvalidJsonFatal ==
    /\ ReadsLine
    /\ \E ln \in Lines :
          /\ JSONDecodeError(ln) # ""
          /\ Emit(ln, Plain(ErrorResponse("Invalid JSON: ", JSONDecodeError(ln))),
                  TRUE, "Terminated")

\* json.loads raises JSONDecodeError (lines 143-147).
RunInvalidJson ==
    /\ ReadsLine
    /\ \E ln \in Lines :
          /\ JSONDecodeError(ln) # ""
          /\ Emit(ln, Plain(ErrorResponse("Invalid JSON: ", JSONDecodeError(ln))),
                  TRUE, "Listening")

\* RunServerError without the except clause of lines 148-152: the exception
\* leaves run, main reports it and the process exits with status 1.
RunServerErrorEscapes ==
    /\ ReadsLine
    /\ \E ln \in Lines :
          /\ ln.syntax = "nonobject"
          /\ line' = ln
          /\ response' = ErrorResponse("Server startup failed: ", AttributeError(ln))
    /\ trace' = NoTrace
    /\ prev_kind' = Kind(response)
    /\ stdin' = stdin - 1
    /\ consumed' = consumed + 1
    /\ written' = written + 1
    /\ flushed' = written + 1
    /\ phase' = "Exited"
    /\ exit_status' = "1"
    /\ UNCHANGED server_state

\* Any other exception of the iteration (lines 148-152): the line decodes to a
\* value without a get method.
RunServerError ==
    /\ ReadsLine
    /\ \E ln \in Lines :
          /\ ln.syntax = "nonobject"
          /\ Emit(ln, Plain(ErrorResponse("Server error: ", AttributeError(ln))),
                  TRUE, "Listening")

\* RunTranscribe keeping the prompt name it used as the server's default.
RunTranscribeKeepsPrompt ==
    /\ ReadsLine
    /\ \E ln \in Lines :
          /\ ln.syntax = "object" /\ ln.action = "transcribe"
          /\ \E out \in IF ~PyTruthy(ln.audio_path)
                        THEN {Plain(ErrorResponse("Missing audio_path parameter", ""))}
                        ELSE transcribe(ln.audio_path, ln.cleanup_prompt) :
                /\ line' = ln
                /\ response' = out.resp
                /\ trace' = out.trace
                /\ cleanup_prompt' = PromptType(ln.cleanup_prompt)
    /\ prev_kind' = Kind(response)
    /\ stdin' = stdin - 1
    /\ consumed' = consumed + 1
    /\ written' = written + 1
    /\ flushed' = written + 1
    /\ phase' = "Listening"
    /\ UNCHANGED <<model, cleanup_enabled, text_cleanup, cleanup_load,
                   shared_prompts, prompt_call, exit_status>>

\* action == "transcribe" (lines 114-123, 139-141).
RunTranscribe ==
    /\ ReadsLine
    /\ \E ln \in Lines :
          /\ ln.syntax = "object" /\ ln.action = "transcribe"
          /\ IF ~PyTruthy(ln.audio_path)
             THEN Emit(ln, Plain(ErrorResponse("Missing audio_path parameter", "")),
                       TRUE, "Listening")
             ELSE \E out \in transcribe(ln.audio_path, ln.cleanup_prompt) :
                     Emit(ln, out, TRUE, "Listening")

\* RunPing answering pong only while the previous response was no error.
RunPingAfterSuccess ==
    /\ ReadsLine
    /\ \E ln \in Lines :
          /\ ln.syntax = "object" /\ ln.action = "ping"
          /\ Emit(ln, Plain(IF "error" \in response.keys
                            THEN ErrorResponse("Server error: ", "not ready")
                            ELSE MessageResponse("pong")),
                  TRUE, "Listening")

\* action == "ping" (lines 125-127, 139-141).
RunPing ==
    /\ ReadsLine
    /\ \E ln \in Lines :
          /\ ln.syntax = "object" /\ ln.action = "ping"
          /\ Emit(ln, Plain(MessageResponse("pong")), TRUE, "Listening")

\* RunQuit without its break: the response is printed at line 132 and again
\* at line 140, and the loop goes on.
RunQuitNoBreak ==
    /\ ReadsLine
    /\ \E ln \in Lines :
          /\ ln.syntax = "object" /\ ln.action = "quit"
          /\ line' = ln
    /\ response' = MessageResponse("Shutting down")
    /\ trace' = NoTrace
    /\ prev_kind' = Kind(response)
    /\ stdin' = stdin - 1
    /\ consumed' = consumed + 1
    /\ written' = written + 2
    /\ flushed' = written + 2
    /\ phase' = "Listening"
    /\ UNCHANGED <<server_state, exit_status>>

\* RunQuit with continue in the place of break: one response, and the loop
\* reads on.
RunQuitReadsOn ==
    /\ ReadsLine
    /\ \E ln \in Lines :
          /\ ln.syntax = "object" /\ ln.action = "quit"
          /\ Emit(ln, Plain(MessageResponse("Shutting down")), FALSE, "Listening")

\* action == "quit" (lines 129-133): print, then break without a flush.
RunQuit ==
    /\ ReadsLine
    /\ \E ln \in Lines :
          /\ ln.syntax = "object" /\ ln.action = "quit"
          /\ Emit(ln, Plain(MessageResponse("Shutting down")), FALSE, "Terminated")

\* RunUnknown with the error naming no value.
RunUnknownNoValue ==
    /\ ReadsLine
    /\ \E ln \in Lines :
          /\ ln.syntax = "object"
          /\ ln.action \notin {"transcribe", "ping", "quit"}
          /\ Emit(ln, Plain(ErrorResponse("Unknown action: ", "")),
                  TRUE, "Listening")

\* Any other action, a missing one included (lines 135-141).
RunUnknown ==
    /\ ReadsLine
    /\ \E ln \in Lines :
          /\ ln.syntax = "object"
          /\ ln.action \notin {"transcribe", "ping", "quit"}
          /\ Emit(ln, Plain(ErrorResponse("Unknown action: ", PyStr(ln.action))),
                  TRUE, "Listening")

\* The for loop over sys.stdin ends at the end of the stream.
EndOfInput ==
    /\ phase = "Listening"
    /\ stdin = 0
    /\ phase' = "Terminated"
    /\ UNCHANGED <<server_state, exit_status, stdin, consumed, written, flushed,
                   line, response, prev_kind, trace>>

\* run returns to main, main returns, and the interpreter exits with status
\* 0, flushing what stdout still buffers.
Exit ==
    /\ phase = "Terminated"
    /\ phase' = "Exited"
    /\ exit_status' = "0"
    /\ flushed' = written
    /\ UNCHANGED <<server_state, stdin, consumed, written, line, response,
                   prev_kind, trace>>

Next ==
    \/ Startup
    \/ StartupFails
    \/ RunInvalidJson
    \/ RunServerError
    \/ RunTranscribe
    \/ RunPing
    \/ RunQuit
    \/ RunUnknown
    \/ EndOfInput
    \/ Exit

Spec == Init /\ [][Next]_vars

\* ------------------------------ text_cleanup.py: TextCleanup as a library

\* The names and texts add_custom_prompt is called with.
AddNames == {"general", "legal", "mine"}

AddPrompts == {<<"X">>, <<"Y">>}

\* DictSet merging the new text into the old one.
DictSetAppends(d, key, value) ==
    [k \in (DOMAIN d) \cup {key} |->
        IF k # key THEN d[k]
        ELSE IF k \in DOMAIN d THEN d[k] \o value ELSE value]

\* d[key] = value: insert or replace.
DictSet(d, key, value) ==
    [k \in (DOMAIN d) \cup {key} |-> IF k = key THEN value ELSE d[k]]

\* TextCleanup(custom_prompts=custom) by a caller of the module: the object
\* is kept when the constructor returns.
Construct ==
    /\ ~text_cleanup.present
    /\ prompt_call = NoPromptCall
    /\ \E custom \in CustomPromptFiles, mlx \in BOOLEAN, llmLoads \in BOOLEAN :
          LET made == TextCleanupInit(custom, mlx, llmLoads)
          IN  /\ text_cleanup' = IF made.raised THEN NoTextCleanup ELSE made.obj
              /\ prompt_call' = [op |-> "__init__", overrides |-> custom.map]
    /\ UNCHANGED <<phase, exit_status, model, cleanup_enabled, cleanup_prompt,
                   cleanup_load, stdin, consumed, written, flushed, line,
                   response, prev_kind, trace, shared_prompts>>

\* TextCleanup.add_custom_prompt(name, prompt) (lines 143-146).
AddCustomPrompt ==
    /\ text_cleanup.present
    /\ \E name \in AddNames, prompt \in AddPrompts :
          /\ text_cleanup' =
                 [text_cleanup EXCEPT !.prompts = DictSet(@, name, prompt)]
          /\ prompt_call' = [op |-> "add_custom_prompt",
                             overrides |-> [k \in {name} |-> prompt]]
    /\ UNCHANGED <<phase, exit_status, model, cleanup_enabled, cleanup_prompt,
                   cleanup_load, stdin, consumed, written, flushed, line,
                   response, prev_kind, trace, shared_prompts>>

PromptInit == Init /\ stdin = 0

PromptNext ==
    \/ Construct
    \/ AddCustomPrompt

\* A caller that constructs a TextCleanup and adds prompts to it.
PromptSpec == PromptInit /\ [][PromptNext]_vars

\* ----------------------------------------------------------------- claims

\* A step of the loop that reads one more line.
ReadsOne == consumed' = consumed + 1

\* C1: run writes exactly one response line for every line it consumes,
\* whether the line dispatches, fails to decode or faults: unless the
\* process failed at startup (and then read no line), the lines written are
\* as many as the lines read, and a line read has its response.
C1_OneResponsePerLine ==
    exit_status # "1" =>
        /\ written = consumed
        /\ consumed > 0 => response.keys # {}

\* Three lines read, a decode failure and a fault among them.
C1_Witness ==
    /\ consumed = 3
    /\ written = 3
    /\ prev_kind = "Invalid JSON: "
    /\ Kind(response) = "Server error: "

\* C2: a quit line gets the one response "Shutting down", the loop is then
\* Terminated, and from there on nothing is read, dispatched or written.
C2_QuitIsLast ==
    [][ /\ (ReadsOne /\ line'.syntax = "object" /\ line'.action = "quit")
            => /\ response' = MessageResponse("Shutting down")
               /\ written' = written + 1
               /\ phase' = "Terminated"
        /\ phase \in {"Terminated", "Exited"}
            => /\ UNCHANGED <<stdin, consumed, written, line, response, trace>>
               /\ phase' \in {"Terminated", "Exited"}
      ]_vars

\* quit came after another line and with a line still unread.
C2_Witness ==
    /\ phase = "Exited"
    /\ exit_status = "0"
    /\ Kind(response) = "Shutting down"
    /\ prev_kind # "none"
    /\ consumed = 2
    /\ stdin > 0

\* C3: a line that is not valid JSON, the empty line included, gets the one
\* response {"error": "Invalid JSON: <details>"} and leaves the loop
\* Listening; a line that follows it is read and answered.
C3_InvalidJson ==
    [][ /\ (ReadsOne /\ line'.syntax = "malformed")
            => /\ response'.keys = {"error"}
               /\ response'.error[1] = "Invalid JSON: "
               /\ response'.error[2] # ""
               /\ written' = written + 1
               /\ phase' = "Listening"
        /\ (Kind(response) = "Invalid JSON: " /\ stdin > 0 /\ phase # "Exited")
            => /\ phase = "Listening"
               /\ ReadsOne => /\ written' = written + 1
                              /\ response'.keys # {}
                              /\ line'.action = "ping"
                                   => response' = MessageResponse("pong")
      ]_vars

\* A line was answered with Invalid JSON, and the line after it was
\* transcribed.
C3_Witness ==
    /\ prev_kind = "Invalid JSON: "
    /\ Kind(response) = "transcribed"
    /\ phase = "Listening"

\* C4: a fault while a line is processed is answered with "Server error:
\* <message>" and the loop goes on; no line but quit ends the loop, the loop
\* ends only by quit or at the end of the input, and the process exits with
\* a failure only when startup failed.
C4_FaultsAreCaught ==
    [][ /\ (ReadsOne /\ line'.syntax = "nonobject")
            => /\ response' = ErrorResponse("Server error: ", AttributeError(line'))
               /\ written' = written + 1
        /\ (ReadsOne /\ ~(line'.syntax = "object" /\ line'.action = "quit"))
            => phase' = "Listening" /\ exit_status' = "running"
        /\ (phase = "Listening" /\ phase' # "Listening")
            => /\ phase' = "Terminated"
               /\ \/ stdin = 0 /\ consumed' = consumed
                  \/ ReadsOne /\ line'.action = "quit"
        /\ exit_status' = "1" => consumed' = 0
      ]_vars

\* A fault was answered, and the next line was answered too.
C4_Witness ==
    /\ prev_kind = "Server error: "
    /\ Kind(response) \in {"pong", "transcribed"}
    /\ phase = "Listening"

\* The raw transcription of the last request, and whether generate returned
\* for it.
RawText == trace.asrText

GenerateReturned == trace.refine.genOut # None

\* The candidate as the code takes it from what generate returned (the text
\* after the first len(prompt) characters, stripped), and what generate
\* returned, stripped.
CodeCandidate == Strip(SliceFrom(trace.refine.genOut, Len(trace.refine.prompt)))

StrippedOutput == Strip(trace.refine.genOut)

\* len(c) < 30% of len(t).
Below30Percent(c, t) == 10 * Len(c) < 3 * Len(t)

\* C5: for a raw text T that is not blank and whatever generate returned,
\* if the candidate is empty or shorter than 30% of T (the candidate taken
\* either way), cleanup returns T and a transcribe response has text T and
\* original_text null.
C5_ShortCandidateRejected ==
    (GenerateReturned /\ Strip(RawText) # <<>>) =>
        \A cand \in {CodeCandidate, StrippedOutput} :
            (cand = <<>> \/ Below30Percent(cand, RawText))
                => /\ trace.refine.ret = RawText
                   /\ Kind(response) = "transcribed"
                        => /\ response.text = RawText
                           /\ response.original_text = None

\* A candidate that is not empty but too short was rejected.
C5_Witness ==
    /\ GenerateReturned
    /\ CodeCandidate # <<>>
    /\ Below30Percent(CodeCandidate, RawText)
    /\ Kind(response) = "transcribed"
    /\ response.text = RawText

\* C6: when generate returns a text whose stripped form C is not empty, has
\* at least 30% of the length of the raw text T and differs from T, the
\* response has text C and original_text T.
C6_GeneratedTextReturned ==
    ( /\ Kind(response) = "transcribed"
      /\ GenerateReturned
      /\ StrippedOutput # <<>>
      /\ ~Below30Percent(StrippedOutput, RawText)
      /\ StrippedOutput # RawText )
        => /\ response.text = StrippedOutput
           /\ response.original_text = RawText

\* C7: a fault of the refinement collaborator (the prompt lookup, the chat
\* template, generate) is caught inside cleanup: cleanup returns the raw
\* text, the response built from it is the success envelope with that text
\* and original_text null, and no error response carries the fault.
C7_RefinementFaultsFallBack ==
    /\ trace.refine.fault # ""
         => /\ ~trace.refine.raised
            /\ trace.refine.ret = RawText
            /\ trace.wellFormed => response = TranscribeResponse(RawText, None)
    /\ "error" \in response.keys
         => response.error[2] \notin
                {"unhashable type", "template fault", "generate fault"}

\* generate raised, and the response is the raw transcription.
C7_Witness ==
    /\ trace.refine.fault = "generate fault"
    /\ trace.refine.genCalls = 1
    /\ Kind(response) = "transcribed"
    /\ response.text = RawText

\* C8: when setting up the refinement collaborator failed at startup, the
\* server is in its loop all the same (no exit with status 1), holds no
\* text cleanup, never calls the refinement collaborator, and a transcribe
\* success carries the ASR text with original_text null.
C8_LoadFailureNotFatal ==
    cleanup_load \in {"load failed", "prompts failed"} =>
        /\ phase \in {"Listening", "Terminated", "Exited"}
        /\ exit_status # "1"
        /\ model
        /\ ~text_cleanup.present
        /\ trace.refine.tmplCalls = 0
        /\ trace.refine.genCalls = 0
        /\ Kind(response) = "transcribed"
             => /\ response.text = RawText
                /\ response.original_text = None

\* load() failed, and a text that is not blank was transcribed.
C8_Witness ==
    /\ cleanup_load = "load failed"
    /\ phase = "Listening"
    /\ Kind(response) = "transcribed"
    /\ Strip(RawText) # <<>>

\* C9: a transcribe request whose audio_path names no existing file gets
\* "Audio file not found: <path>" and no collaborator is called for it; the
\* ASR collaborator is called only for a path that exists.
C9_MissingFileNotTranscribed ==
    /\ ( /\ line.syntax = "object"
         /\ line.action = "transcribe"
         /\ PyTruthy(line.audio_path)
         /\ IsStr(line.audio_path)
         /\ line.audio_path \notin ExistingFiles )
         => /\ response = ErrorResponse("Audio file not found: ", line.audio_path)
            /\ trace.asrCalls = 0
            /\ trace.refine.tmplCalls = 0
            /\ trace.refine.genCalls = 0
    /\ trace.asrCalls > 0 => line.audio_path \in ExistingFiles

\* The request for /tmp/missing.wav was answered.
C9_Witness ==
    /\ line.action = "transcribe"
    /\ line.audio_path = "/tmp/missing.wav"
    /\ response = ErrorResponse("Audio file not found: ", "/tmp/missing.wav")
    /\ trace.asrCalls = 0

\* C10: in a transcribe success, a text equal to the raw ASR text comes with
\* original_text null, and an original_text that is not null is the raw ASR
\* text and differs from text.
C10_OriginalTextOnlyWhenReplaced ==
    Kind(response) = "transcribed" =>
        /\ response.text = RawText => response.original_text = None
        /\ response.original_text # None
             => /\ response.original_text = RawText
                /\ response.original_text # response.text

\* After two other requests, a refined text replaced the raw one.
C10_Witness ==
    /\ consumed = 3
    /\ Kind(response) = "transcribed"
    /\ response.original_text # None
    /\ response.text = CodeCandidate

\* C11 as stated: every line that decodes as JSON and whose action is none
\* of transcribe, ping and quit (a line with no action included) is answered
\* with {"error": "Unknown action: <value>"}, and the loop stays Listening.
C11_AnyJsonUnknownAction ==
    [][ ( /\ ReadsOne
          /\ line'.syntax \in {"object", "nonobject"}
          /\ line'.action \notin {"transcribe", "ping", "quit"} )
            => /\ response' = ErrorResponse("Unknown action: ", PyStr(line'.action))
               /\ phase' = "Listening"
      ]_vars

\* C11: every line that decodes as a JSON object and whose action is none
\* of transcribe, ping and quit (an object with no action included) is
\* answered with {"error": "Unknown action: <value>"}, <value> being the
\* action as str formats it ("None" for a missing one), and the loop stays
\* Listening.
C11_UnknownAction ==
    [][ ( /\ ReadsOne
          /\ line'.syntax = "object"
          /\ line'.action \notin {"transcribe", "ping", "quit"} )
            => /\ response' = ErrorResponse("Unknown action: ", PyStr(line'.action))
               /\ written' = written + 1
               /\ phase' = "Listening"
      ]_vars

\* An object without an action was answered after an unknown action was.
C11_Witness ==
    /\ line.syntax = "object"
    /\ line.action = Absent
    /\ response = ErrorResponse("Unknown action: ", "None")
    /\ prev_kind = "Unknown action: "
    /\ phase = "Listening"

\* The last line read is a transcribe request with an audio_path that is
\* present (not missing, not empty).
TranscribeRequested ==
    /\ line.syntax = "object"
    /\ line.action = "transcribe"
    /\ PyTruthy(line.audio_path)

\* C12: transcribe raises nothing past its boundary.  A transcribe request
\* with a present audio_path, whatever its value, is answered by transcribe
\* itself (a success, "Audio file not found" or "Transcription failed"),
\* never with "Server error"; a fault of the ASR collaborator, a fault while
\* the payload is assembled and a path that is no string each give
\* {"error": "Transcription failed: <message>"} with the fault's message.
C12_TranscribeNeverRaises ==
    TranscribeRequested =>
        /\ Kind(response) \in
               {"transcribed", "Audio file not found: ", "Transcription failed: "}
        /\ (trace.asrCalls = 1 /\ trace.asrText = None)
             => response = ErrorResponse("Transcription failed: ", "asr fault")
        /\ (trace.asrCalls = 1 /\ trace.asrText # None /\ ~trace.wellFormed)
             => response = ErrorResponse("Transcription failed: ",
                                         "object has no attribute")
        /\ ~IsStr(line.audio_path)
             => response = ErrorResponse("Transcription failed: ",
                                   "expected str, bytes or os.PathLike object")

\* The ASR collaborator raised for an existing file, after a request whose
\* payload could not be assembled.
C12_Witness ==
    /\ TranscribeRequested
    /\ trace.asrCalls = 1
    /\ trace.asrText = None
    /\ response = ErrorResponse("Transcription failed: ", "asr fault")
    /\ prev_kind = "Transcription failed: "
    /\ phase = "Listening"

\* C13: when the ASR collaborator fails to load at startup, the process
\* writes exactly one response, an error, and exits with status 1 without
\* entering the loop: no line is read, the refinement collaborator is not
\* set up, and nothing happens afterwards.  The loop runs only with the ASR
\* model loaded.
C13_AsrLoadFailureIsFatal ==
    [][ /\ (phase = "Starting" /\ ~model')
            => /\ phase' = "Exited"
               /\ exit_status' = "1"
               /\ written' = 1
               /\ flushed' = 1
               /\ response'.keys = {"error"}
               /\ consumed' = 0
               /\ stdin' = stdin
               /\ line' = NoLine
               /\ cleanup_load' = "not attempted"
               /\ ~text_cleanup'.present
               /\ trace' = NoTrace
        /\ exit_status = "1" => UNCHANGED vars
        /\ phase' \in {"Listening", "Terminated"} => model'
      ]_vars

\* Startup failed with lines waiting on the input.
C13_Witness ==
    /\ exit_status = "1"
    /\ phase = "Exited"
    /\ ~model
    /\ stdin > 0
    /\ written = 1
    /\ Kind(response) = "Server startup failed: "

\* C14: every response line the loop writes, on every path (dispatch, quit,
\* Invalid JSON, Server error), is flushed right after it is written, before
\* the loop reads the next line or terminates: whenever the loop is between
\* lines or has terminated, all that was written has been flushed.
C14_EveryResponseFlushed ==
    phase \in {"Listening", "Terminated"} => flushed = written

\* C15: a ping request is answered {"success": true, "message": "pong"} in
\* whatever state the loop reads it, after any requests (failed ones
\* included) and any number of times; handling it calls neither the ASR nor
\* the refinement collaborator and leaves the loop Listening.
C15_PingAlwaysPong ==
    [][ (ReadsOne /\ line'.syntax = "object" /\ line'.action = "ping")
            => /\ response' = MessageResponse("pong")
               /\ written' = written + 1
               /\ flushed' = written'
               /\ trace'.asrCalls = 0
               /\ trace'.refine.tmplCalls = 0
               /\ trace'.refine.genCalls = 0
               /\ phase' = "Listening"
      ]_vars

\* The third line was a ping, answered pong after a transcription that
\* failed.
C15_Witness ==
    /\ consumed = 3
    /\ line.action = "ping"
    /\ response = MessageResponse("pong")
    /\ prev_kind = "Transcription failed: "
    /\ trace.asrCalls = 0

\* C16: when the refinement collaborator is called for a request, the prompt
\* name is the request's cleanup_prompt, or the server's default name when
\* the request carries none, and the system instruction is the registry's
\* entry for that name when the name is registered and the registry's
\* general entry when it is not.
C16_PromptResolution ==
    trace.refine.tmplCalls = 1 =>
        LET name == IF line.cleanup_prompt \in {Absent, ""}
                    THEN cleanup_prompt ELSE line.cleanup_prompt
            registry == text_cleanup.prompts
        IN  /\ trace.prompt_type = name
            /\ name \in DOMAIN registry
                 => trace.refine.system_prompt = registry[name]
            /\ name \notin DOMAIN registry
                 => trace.refine.system_prompt = registry["general"]

\* A name that is not registered resolved to the general entry that the
\* user's prompt file supplied, after a request without override resolved
\* to it as the default.
C16_Witness ==
    /\ trace.refine.tmplCalls = 1
    /\ line.cleanup_prompt = "nosuch"
    /\ text_cleanup.prompts["general"] # DEFAULT_PROMPTS["general"]
    /\ trace.refine.system_prompt = text_cleanup.prompts["general"]
    /\ prev_kind = "transcribed"

\* The response r is one that the line ln can be answered with.
Answers(ln, r) ==
    IF ln.syntax = "malformed" THEN Kind(r) = "Invalid JSON: "
    ELSE IF ln.syntax = "nonobject" THEN Kind(r) = "Server error: "
    ELSE IF ln.action = "ping" THEN Kind(r) = "pong"
    ELSE IF ln.action = "quit" THEN Kind(r) = "Shutting down"
    ELSE IF ln.action = "transcribe"
    THEN Kind(r) \in {"Missing audio_path parameter", "Audio file not found: ",
                      "Transcription failed: ", "transcribed"}
    ELSE r = ErrorResponse("Unknown action: ", PyStr(ln.action))

\* C17: the loop is one-in-one-out.  When it begins with a line, every line
\* before it has its response written and flushed (as many responses as
\* lines, none buffered); the line it then reads is the next of the input,
\* and the one response written for it, the next of the output, answers
\* that line.
C17_OneInOneOut ==
    [][ ReadsOne
          => /\ written = consumed
             /\ flushed = written
             /\ stdin' = stdin - 1
             /\ written' = consumed'
             /\ Answers(line', response')
      ]_vars

\* Three lines were answered in turn, the last an unknown action after a
\* ping.
C17_Witness ==
    /\ consumed = 3
    /\ written = 3
    /\ flushed = 3
    /\ line.action = "bogus"
    /\ Kind(response) = "Unknown action: "
    /\ prev_kind = "pong"

\* The prompts of the TextCleanup object, and the table a write starts
\* from: the object's prompts, or the built-in table when the object is
\* being constructed.
PromptSet == text_cleanup.prompts

WrittenOver == IF text_cleanup.present THEN PromptSet ELSE DEFAULT_PROMPTS

\* C18: the prompts of a TextCleanup are the built-in table with the
\* overrides applied key by key as insert-or-replace.  Whatever overrides it
\* was constructed with and whatever add_custom_prompt calls followed, the
\* keys general, coding and punctuation are present and the shared built-in
\* table is as it was defined; and each write (the constructor's, a call of
\* add_custom_prompt) leaves the keys it had and the keys it names and no
\* other, gives a key it names the whole value supplied, and leaves every
\* other key its value.
C18_PromptSetInsertOrReplace ==
    /\ [](/\ shared_prompts = DEFAULT_PROMPTS
          /\ text_cleanup.present
               => {"general", "coding", "punctuation"} \subseteq DOMAIN PromptSet)
    /\ [][ text_cleanup'.present
             => LET over == prompt_call'.overrides
                IN  /\ DOMAIN PromptSet' = (DOMAIN WrittenOver) \cup (DOMAIN over)
                    /\ \A k \in DOMAIN PromptSet' :
                          PromptSet'[k] = IF k \in DOMAIN over THEN over[k]
                                          ELSE WrittenOver[k]
         ]_vars

\* Constructed with a prompt file that replaces general and adds legal, then
\* general replaced again and mine added: legal and the other built-ins are
\* as they were.
C18_Witness ==
    /\ text_cleanup.present
    /\ DOMAIN PromptSet = {"general", "coding", "punctuation", "legal", "mine"}
    /\ PromptSet["general"] = <<"X">>
    /\ PromptSet["legal"] = <<"L">>
    /\ PromptSet["mine"] = <<"Y">>
    /\ PromptSet["coding"] = DEFAULT_PROMPTS["coding"]
    /\ PromptSet["punctuation"] = DEFAULT_PROMPTS["punctuation"]
    /\ prompt_call.op = "add_custom_prompt"

\* The ASR collaborator returned a text that is empty or whitespace only.
BlankTranscription ==
    /\ trace.asrCalls = 1
    /\ RawText # None
    /\ \A i \in 1..Len(RawText) : RawText[i] = " "

\* C19: when the raw transcription is empty or whitespace only, cleanup
\* returns it unchanged without trying a refinement: the chat template and
\* generate are called zero times for the request, and the response carries
\* the raw text with original_text null.
C19_BlankTextNotRefined ==
    BlankTranscription =>
        /\ trace.refine.tmplCalls = 0
        /\ trace.refine.genCalls = 0
        /\ trace.refine.ret = RawText
        /\ response = TranscribeResponse(RawText, None)

\* A whitespace-only transcription was answered by a server whose
\* refinement collaborator is loaded and enabled.
C19_Witness ==
    /\ BlankTranscription
    /\ RawText = <<" ">>
    /\ text_cleanup.present
    /\ text_cleanup.enabled
    /\ cleanup_enabled
    /\ response = TranscribeResponse(<<" ">>, None)

\* C20: processing a request changes nothing of the server's state.  Once
\* the server is constructed, no step (a request with a cleanup_prompt
\* override, a refinement that was rejected or faulted, an error response,
\* the end of the loop) changes the default prompt name, the prompts, the
\* refinement-enabled flags or the two collaborator handles; so an override
\* holds for its request only, and a request without one that reaches the
\* refinement uses the configured default name, general, whatever the
\* requests before it carried.
C20_RequestsLeaveServerState ==
    [][ /\ phase # "Starting"
            => UNCHANGED <<model, cleanup_enabled, cleanup_prompt, text_cleanup,
                           cleanup_load, shared_prompts>>
        /\ (ReadsOne /\ line'.cleanup_prompt = Absent /\ trace'.refine.tmplCalls = 1)
            => /\ trace'.prompt_type = "general"
               /\ trace'.refine.system_prompt = text_cleanup.prompts["general"]
      ]_vars

\* A request with the override coding was refined with the coding prompt
\* after another transcription, the default name is still general, and a
\* line is still to come.
C20_Witness ==
    /\ consumed = 2
    /\ prev_kind = "transcribed"
    /\ line.cleanup_prompt = "coding"
    /\ trace.prompt_type = "coding"
    /\ trace.refine.system_prompt = text_cleanup.prompts["coding"]
    /\ cleanup_prompt = "general"
    /\ phase = "Listening"
    /\ stdin > 0

====
